---- MODULE Spec2Model ----
(***************************************************************************)
(* GoLisp: the debug controller (debug primitives, DebugRepl,              *)
(* ProcessError) and the vector primitives of prim_vector.go, as a state   *)
(* machine over the Go call stack of one evaluation thread.                *)
(*                                                                         *)
(* A vector is a Go slice: a window [lo, hi) on a backing array.  `arrays` *)
(* holds the backing arrays and `vecs` the vector objects.  `stack` is the *)
(* native call stack: an "eval" frame is one primitive call being          *)
(* evaluated, a "repl" frame is one activation of DebugRepl.  The frame of *)
(* the host's evaluation stays, as its record, until the next one starts.  *)
(***************************************************************************)
EXTENDS Integers, Sequences, FiniteSets, TLC

VARIABLES arrays, vecs, DebugOnError, IsInteractive, DebugEvalInDebugRepl,
          DebugSingleStep, DebugCurrentFrame, DebugReturnValue,
          stack, status

vars == <<arrays, vecs, DebugOnError, IsInteractive, DebugEvalInDebugRepl,
          DebugSingleStep, DebugCurrentFrame, DebugReturnValue,
          stack, status>>

heapVars == <<arrays, vecs>>

flagVars == <<DebugOnError, IsInteractive, DebugEvalInDebugRepl,
              DebugSingleStep, DebugCurrentFrame, DebugReturnValue>>

(***************************************************************************)
(* Bounds of the model.                                                    *)
(***************************************************************************)
MaxLen == 3

MaxElem == 1

MaxNest == 2

(***************************************************************************)
(* Values (Go Data).  Each kind has its own payload field, so that values of *)
(* different kinds are unequal records.                                    *)
(***************************************************************************)
Nil == [t |-> "nil"]

IntegerWithValue(n) == [t |-> "int", n |-> n]

BooleanWithValue(b) == [t |-> "bool", b |-> b]

StringWithValue(s) == [t |-> "str", s |-> s]

VectorWithValue(id) == [t |-> "vec", id |-> id]

PrimitiveWithName(f) == [t |-> "fn", f |-> f]

LispFalse == BooleanWithValue(FALSE)

IntegerP(d) == d.t = "int"

BooleanP(d) == d.t = "bool"

VectorP(d) == d.t = "vec"

FunctionOrPrimitiveP(d) == d.t = "fn"

IntegerValue(d) == d.n

\* truthiness: every value but Boolean false is true
BooleanValue(d) == IF BooleanP(d) THEN d.b ELSE TRUE

Elems == {Nil} \cup {IntegerWithValue(n) : n \in 0..MaxElem}

RECURSIVE SeqsUpTo(_, _)
SeqsUpTo(S, n) ==
    IF n = 0 THEN {<<>>}
    ELSE LET shorter == SeqsUpTo(S, n - 1)
         IN  shorter \cup {Append(s, x) : s \in {q \in shorter : Len(q) = n - 1}, x \in S}

(***************************************************************************)
(* The heap: backing arrays and the slices on them.                        *)
(***************************************************************************)
SliceOf(arrs, vs, d) ==
    LET h == vs[d.id]
    IN  SubSeq(arrs[h.arr], h.lo + 1, h.hi)

VectorValue(d) == SliceOf(arrays, vecs, d)

Length(d) == vecs[d.id].hi - vecs[d.id].lo

NoErr == ""

(***************************************************************************)
(* The outcome of a primitive's body up to its return statement:           *)
(*   "ok"     it returns result with a nil error;                          *)
(*   "err"    it returns an error it received from a call it made;         *)
(*   "signal" it calls ProcessError(msg, env) and returns what that gives; *)
(*   "debug"  it calls DebugRepl(env) itself (DebugImpl);                  *)
(*   "panic"  the Go runtime panics (index out of range, negative make).   *)
(* arrs and vs are the heap the body leaves, applied the argument lists it *)
(* passed to the function argument, in order.                              *)
(***************************************************************************)
Outcome(kind, result, msg, arrs, vs, applied) ==
    [kind |-> kind, result |-> result, msg |-> msg, arrs |-> arrs, vs |-> vs,
     applied |-> applied]

Ok(result) == Outcome("ok", result, NoErr, arrays, vecs, <<>>)

Signal(msg) == Outcome("signal", Nil, msg, arrays, vecs, <<>>)

Panic == Outcome("panic", Nil, NoErr, arrays, vecs, <<>>)

\* VectorWithValue(newV) for a freshly made Go slice newV
NewVector(vals, applied) ==
    Outcome("ok", VectorWithValue(Len(vecs) + 1), NoErr,
            Append(arrays, vals),
            Append(vecs, [arr |-> Len(arrays) + 1, lo |-> 0, hi |-> Len(vals)]),
            applied)

First(args) == args[1]

Second(args) == args[2]

Third(args) == args[3]

(***************************************************************************)
(* vector-ref, vector-set!, vector-grow                                    *)
(***************************************************************************)
VectorRefImpl(args) ==
    LET v == First(args)
        k == Second(args)
    IN  IF ~VectorP(v)
        THEN Signal("vector-ref needs a vector as its first argument")
        ELSE IF ~IntegerP(k)
        THEN Signal("vector-ref needs an integer as its second argument")
        ELSE LET values == VectorValue(v)
                 index == IntegerValue(k)
             IN  IF index >= Len(values)
                 THEN Signal("vector-ref needs an index less than the vector length")
                 ELSE IF index < 0
                 THEN Panic
                 ELSE Ok(values[index + 1])

\* mutant: the element is not written
VectorSetImplNoWrite(args) ==
    LET v == First(args)
        k == Second(args)
    IN  IF ~VectorP(v) \/ ~IntegerP(k)
        THEN Signal("vector-set! needs a vector and an integer")
        ELSE IF IntegerValue(k) < 0 \/ IntegerValue(k) >= Length(v)
        THEN Panic
        ELSE Ok(StringWithValue("OK"))

VectorSetImpl(args) ==
    LET v == First(args)
        k == Second(args)
    IN  IF ~VectorP(v)
        THEN Signal("vector-set! needs a vector as its first argument")
        ELSE IF ~IntegerP(k)
        THEN Signal("vector-set! needs an integer as its second argument")
        ELSE LET h == vecs[v.id]
                 kval == IntegerValue(k)
                 newValue == Third(args)
             IN  IF kval < 0 \/ kval >= h.hi - h.lo
                 THEN Panic
                 ELSE Outcome("ok", StringWithValue("OK"), NoErr,
                              [arrays EXCEPT ![h.arr][h.lo + kval + 1] = newValue],
                              vecs, <<>>)

VectorGrowImpl(args) ==
    LET v == First(args)
        k == Second(args)
    IN  IF ~VectorP(v)
        THEN Signal("vector-grow needs a vector as its first argument")
        ELSE IF ~IntegerP(k)
        THEN Signal("vector-grow needs an integer as its second argument")
        ELSE LET originalValues == VectorValue(v)
                 size == IntegerValue(k)
             IN  IF size <= Len(originalValues)
                 THEN Signal("vector-grow needs a new size that is larger than the size of its vector argument")
                 ELSE NewVector([i \in 1..size |->
                                   IF i <= Len(originalValues)
                                   THEN originalValues[i] ELSE Nil], <<>>)

(***************************************************************************)
(* Functions given to the higher-order primitives.  "+" is the primitive   *)
(* Add; "positive?" is a one-argument predicate and "<", ">" two-argument  *)
(* comparators on numbers, as scripts define them.  ApplyWithoutEval       *)
(* yields the function's value, or no value and a failure.                 *)
(***************************************************************************)
Failure(msg) == [result |-> Nil, err |-> msg]

Value(d) == [result |-> d, err |-> NoErr]

RECURSIVE Add(_, _)
Add(args, acc) ==
    IF args = <<>> THEN Value(IntegerWithValue(acc))
    ELSE IF ~IntegerP(Head(args)) THEN Failure("Number expected")
    ELSE Add(Tail(args), acc + IntegerValue(Head(args)))

ApplyWithoutEval(f, args) ==
    IF f.f = "+" THEN Add(args, 0)
    ELSE IF f.f = "positive?"
    THEN IF Len(args) # 1 THEN Failure("Wrong number of arguments")
         ELSE IF ~IntegerP(args[1]) THEN Failure("Number expected")
         ELSE Value(BooleanWithValue(IntegerValue(args[1]) > 0))
    ELSE IF Len(args) # 2 THEN Failure("Wrong number of arguments")
         ELSE IF ~IntegerP(args[1]) \/ ~IntegerP(args[2]) THEN Failure("Number expected")
         ELSE IF f.f = "<"
         THEN Value(BooleanWithValue(IntegerValue(args[1]) < IntegerValue(args[2])))
         ELSE Value(BooleanWithValue(IntegerValue(args[1]) > IntegerValue(args[2])))

Fns == {PrimitiveWithName(n) : n \in {"+", "positive?", "<", ">"}}

Comparators == {PrimitiveWithName(n) : n \in {"<", ">"}}

\* what a loop over the elements leaves: kind as for Outcome
Loop(kind, vals, msg, applied) ==
    [kind |-> kind, vals |-> vals, msg |-> msg, applied |-> applied]

\* the outcome of a primitive whose loop ended early
Stopped(run) == Outcome(run.kind, Nil, run.msg, arrays, vecs, run.applied)

Min(S) == CHOOSE n \in S : \A m \in S : n <= m

(***************************************************************************)
(* make-initialized-vector                                                 *)
(***************************************************************************)
RECURSIVE MakeInitializedLoop(_, _, _, _, _)
MakeInitializedLoop(f, size, i, vals, applied) ==
    IF i >= size THEN Loop("ok", vals, NoErr, applied)
    ELSE LET r == ApplyWithoutEval(f, <<IntegerWithValue(i)>>)
             ap == Append(applied, <<IntegerWithValue(i)>>)
         IN  IF r.err # NoErr THEN Loop("err", vals, r.err, ap)
             ELSE MakeInitializedLoop(f, size, i + 1, Append(vals, r.result), ap)

MakeInitializedVectorImpl(args) ==
    LET k == First(args)
        f == Second(args)
    IN  IF ~IntegerP(k)
        THEN Signal("make-initialized-vector needs an integer as its first argument")
        ELSE IF ~FunctionOrPrimitiveP(f)
        THEN Signal("make-initialized-vector needs a function as its second argument")
        ELSE IF IntegerValue(k) < 0
        THEN Panic
        ELSE LET run == MakeInitializedLoop(f, IntegerValue(k), 0, <<>>, <<>>)
             IN  IF run.kind = "ok" THEN NewVector(run.vals, run.applied)
                 ELSE Stopped(run)

(***************************************************************************)
(* vector-map, vector-for-each                                             *)
(***************************************************************************)
RECURSIVE VectorMapLoop(_, _, _, _, _, _)
VectorMapLoop(f, collections, loopCount, index, vals, applied) ==
    IF index >= loopCount THEN Loop("ok", vals, NoErr, applied)
    ELSE LET mapArgs == [c \in 1..Len(collections) |-> collections[c][index + 1]]
             r == ApplyWithoutEval(f, mapArgs)
             ap == Append(applied, mapArgs)
         IN  IF r.err # NoErr THEN Loop("err", vals, r.err, ap)
             ELSE VectorMapLoop(f, collections, loopCount, index + 1,
                                Append(vals, r.result), ap)

VectorMapImpl(args) ==
    LET f == First(args)
        cols == Tail(args)
    IN  IF ~FunctionOrPrimitiveP(f)
        THEN Signal("vector-map needs a function as its first argument")
        ELSE IF \E c \in 1..Len(cols) : ~VectorP(cols[c])
        THEN Signal("vector-map needs vectors as its other arguments")
        ELSE IF cols = <<>>
        THEN Ok(Nil)
        ELSE LET collections == [c \in 1..Len(cols) |-> VectorValue(cols[c])]
                 loopCount == Min({Len(collections[c]) : c \in 1..Len(cols)})
                 run == VectorMapLoop(f, collections, loopCount, 0, <<>>, <<>>)
             IN  IF run.kind = "ok" THEN NewVector(run.vals, run.applied)
                 ELSE Stopped(run)

RECURSIVE VectorForEachLoop(_, _, _, _, _)
VectorForEachLoop(f, collections, loopCount, index, applied) ==
    IF index >= loopCount THEN Loop("ok", <<>>, NoErr, applied)
    ELSE LET mapArgs == [c \in 1..Len(collections) |-> collections[c][index + 1]]
             r == ApplyWithoutEval(f, mapArgs)
             ap == Append(applied, mapArgs)
         IN  IF r.err # NoErr THEN Loop("err", <<>>, r.err, ap)
             ELSE VectorForEachLoop(f, collections, loopCount, index + 1, ap)

VectorForEachImpl(args) ==
    LET f == First(args)
        cols == Tail(args)
    IN  IF ~FunctionOrPrimitiveP(f)
        THEN Signal("vector-for-each needs a function as its first argument")
        ELSE IF \E c \in 1..Len(cols) : ~VectorP(cols[c])
        THEN Signal("vector-for-each needs vectors as its other arguments")
        ELSE IF cols = <<>>
        THEN Ok(Nil)
        ELSE LET collections == [c \in 1..Len(cols) |-> VectorValue(cols[c])]
                 loopCount == Min({Len(collections[c]) : c \in 1..Len(cols)})
                 run == VectorForEachLoop(f, collections, loopCount, 0, <<>>)
             IN  IF run.kind = "ok"
                 THEN Outcome("ok", Nil, NoErr, arrays, vecs, run.applied)
                 ELSE Stopped(run)

(***************************************************************************)
(* vector-reduce                                                           *)
(***************************************************************************)
RECURSIVE VectorReduceLoop(_, _, _, _, _)
VectorReduceLoop(f, v, i, result, applied) ==
    IF i > Len(v) THEN Loop("ok", result, NoErr, applied)
    ELSE LET r == ApplyWithoutEval(f, <<result, v[i]>>)
             ap == Append(applied, <<result, v[i]>>)
         IN  IF r.err # NoErr THEN Loop("err", r.result, r.err, ap)
             ELSE VectorReduceLoop(f, v, i + 1, r.result, ap)

\* mutant: the fold is seeded with initial
VectorReduceImplSeeded(args) ==
    LET f == First(args)
        initial == Second(args)
        col == Third(args)
    IN  IF ~FunctionOrPrimitiveP(f)
        THEN Signal("vector-reduce needs a function as its first argument")
        ELSE IF ~VectorP(col)
        THEN Signal("vector-reduce needs a vector as its third argument")
        ELSE LET run == VectorReduceLoop(f, VectorValue(col), 1, initial, <<>>)
             IN  Outcome(run.kind, run.vals, run.msg, arrays, vecs, run.applied)

VectorReduceImpl(args) ==
    LET f == First(args)
        initial == Second(args)
        col == Third(args)
    IN  IF ~FunctionOrPrimitiveP(f)
        THEN Signal("vector-reduce needs a function as its first argument")
        ELSE IF ~VectorP(col)
        THEN Signal("vector-reduce needs a vector as its third argument")
        ELSE LET v == VectorValue(col)
             IN  IF Len(v) = 0 THEN Ok(initial)
                 ELSE IF Len(v) = 1 THEN Ok(v[1])
                 ELSE LET run == VectorReduceLoop(f, v, 2, v[1], <<>>)
                      IN  Outcome(run.kind, run.vals, run.msg, arrays, vecs, run.applied)

(***************************************************************************)
(* vector-filter, vector-remove, vector-find                               *)
(***************************************************************************)
RECURSIVE VectorFilterLoop(_, _, _, _, _)
VectorFilterLoop(f, vals, i, d, applied) ==
    IF i > Len(vals) THEN Loop("ok", d, NoErr, applied)
    ELSE LET r == ApplyWithoutEval(f, <<vals[i]>>)
             ap == Append(applied, <<vals[i]>>)
         IN  IF r.err # NoErr THEN Loop("err", d, r.err, ap)
             ELSE IF ~BooleanP(r.result)
             THEN Loop("signal", d,
                       "vector-filter needs a predicate function as its first argument.", ap)
             ELSE VectorFilterLoop(f, vals, i + 1,
                                   IF BooleanValue(r.result) THEN Append(d, vals[i]) ELSE d, ap)

VectorFilterImpl(args) ==
    LET f == First(args)
        v == Second(args)
    IN  IF ~FunctionOrPrimitiveP(f)
        THEN Signal("vector-filter needs a function as its first argument")
        ELSE IF ~VectorP(v)
        THEN Signal("vector-filter needs a vector as its second argument")
        ELSE LET run == VectorFilterLoop(f, VectorValue(v), 1, <<>>, <<>>)
             IN  IF run.kind = "ok" THEN NewVector(run.vals, run.applied)
                 ELSE Stopped(run)

RECURSIVE VectorRemoveLoop(_, _, _, _, _)
VectorRemoveLoop(f, vals, i, d, applied) ==
    IF i > Len(vals) THEN Loop("ok", d, NoErr, applied)
    ELSE LET r == ApplyWithoutEval(f, <<vals[i]>>)
             ap == Append(applied, <<vals[i]>>)
         IN  IF r.err # NoErr THEN Loop("err", d, r.err, ap)
             ELSE IF ~BooleanP(r.result)
             THEN Loop("signal", d,
                       "vector-remove needs a predicate function as its first argument.", ap)
             ELSE VectorRemoveLoop(f, vals, i + 1,
                                   IF ~BooleanValue(r.result) THEN Append(d, vals[i]) ELSE d, ap)

VectorRemoveImpl(args) ==
    LET f == First(args)
        v == Second(args)
    IN  IF ~FunctionOrPrimitiveP(f)
        THEN Signal("vector-remove needs a function as its first argument")
        ELSE IF ~VectorP(v)
        THEN Signal("vector-remove needs a vector as its second argument")
        ELSE LET run == VectorRemoveLoop(f, VectorValue(v), 1, <<>>, <<>>)
             IN  IF run.kind = "ok" THEN NewVector(run.vals, run.applied)
                 ELSE Stopped(run)

\* the failure of the applied function is not looked at: found is then nil
RECURSIVE VectorFindLoop(_, _, _, _)
VectorFindLoop(f, vals, i, applied) ==
    IF i > Len(vals) THEN Loop("ok", LispFalse, NoErr, applied)
    ELSE LET found == ApplyWithoutEval(f, <<vals[i]>>).result
             ap == Append(applied, <<vals[i]>>)
         IN  IF ~BooleanP(found)
             THEN Loop("signal", Nil,
                       "vector-find needs a predicate function as its first argument.", ap)
             ELSE IF BooleanValue(found) THEN Loop("ok", vals[i], NoErr, ap)
             ELSE VectorFindLoop(f, vals, i + 1, ap)

VectorFindImpl(args) ==
    LET f == First(args)
        v == Second(args)
    IN  IF ~FunctionOrPrimitiveP(f)
        THEN Signal("vector-find needs a function as its first argument")
        ELSE IF ~VectorP(v)
        THEN Signal("vector-find needs a vector as its second argument")
        ELSE LET run == VectorFindLoop(f, VectorValue(v), 1, <<>>)
             IN  Outcome(run.kind, run.vals, run.msg, arrays, vecs, run.applied)

(***************************************************************************)
(* vector-sort, vector-sort!.  MergeSort sorts a slice into a new one,     *)
(* asking proc whether its first argument goes before its second.          *)
(***************************************************************************)
RECURSIVE Merge(_, _, _, _)
Merge(a, b, proc, acc) ==
    IF a = <<>> THEN Loop("ok", acc \o b, NoErr, <<>>)
    ELSE IF b = <<>> THEN Loop("ok", acc \o a, NoErr, <<>>)
    ELSE LET r == ApplyWithoutEval(proc, <<Head(a), Head(b)>>)
         IN  IF r.err # NoErr THEN Loop("err", <<>>, r.err, <<>>)
             ELSE IF r.result = BooleanWithValue(TRUE)
             THEN Merge(Tail(a), b, proc, Append(acc, Head(a)))
             ELSE Merge(a, Tail(b), proc, Append(acc, Head(b)))

RECURSIVE MergeSort(_, _)
MergeSort(items, proc) ==
    IF Len(items) < 2 THEN Loop("ok", items, NoErr, <<>>)
    ELSE LET middle == Len(items) \div 2
             a == MergeSort(SubSeq(items, 1, middle), proc)
             b == MergeSort(SubSeq(items, middle + 1, Len(items)), proc)
         IN  IF a.kind # "ok" THEN a
             ELSE IF b.kind # "ok" THEN b
             ELSE Merge(a.vals, b.vals, proc, <<>>)

\* mutant: the sorted elements are written over the argument, which is returned
VectorSortImplInPlace(args) ==
    LET v == First(args)
        sorted == MergeSort(VectorValue(v), Second(args))
    IN  IF sorted.kind # "ok" THEN Stopped(sorted)
        ELSE Outcome("ok", v, NoErr,
                     [arrays EXCEPT ![vecs[v.id].arr] = sorted.vals], vecs, <<>>)

VectorSortImpl(args) ==
    LET v == First(args)
        proc == Second(args)
    IN  IF ~VectorP(v)
        THEN Signal("vector-sort needs a vector as its argument")
        ELSE IF ~FunctionOrPrimitiveP(proc)
        THEN Signal("vector-sort requires a function or primitive as it's second argument")
        ELSE LET sorted == MergeSort(VectorValue(v), proc)
             IN  IF sorted.kind # "ok" THEN Stopped(sorted)
                 ELSE NewVector(sorted.vals, <<>>)

\* mutant: the copy loop writes nothing
WriteSliceNothing(arrs, h, sorted) == arrs

\* values[i] = val for every element of sorted: the window h of its array
WriteSlice(arrs, h, sorted) ==
    [arrs EXCEPT ![h.arr] =
        [i \in DOMAIN @ |-> IF h.lo < i /\ i <= h.hi THEN sorted[i - h.lo] ELSE @[i]]]

VectorSortInPlaceImpl(args) ==
    LET v == First(args)
        proc == Second(args)
    IN  IF ~VectorP(v)
        THEN Signal("vector-sort! needs a vector as its argument")
        ELSE IF ~FunctionOrPrimitiveP(proc)
        THEN Signal("vector-sort! requires a function or primitive as it's second argument")
        ELSE LET sorted == MergeSort(VectorValue(v), proc)
             IN  IF sorted.kind # "ok" THEN Stopped(sorted)
                 ELSE Outcome("ok", v, NoErr, WriteSlice(arrays, vecs[v.id], sorted.vals),
                              vecs, <<>>)

(***************************************************************************)
(* subvector-move-left!, subvector-move-right!                             *)
(***************************************************************************)
Fourth(args) == args[4]

Fifth(args) == args[5]

\* values2[i2] = values[i], element by element in the order of the loop; h
\* and h2 are the slices of values and values2, step is +1 or -1 and n the
\* number of elements still to move.  An index outside values2 panics.
RECURSIVE MoveLoop(_, _, _, _, _, _, _)
MoveLoop(arrs, h, h2, i, i2, step, n) ==
    IF n = 0 THEN [kind |-> "ok", arrs |-> arrs]
    ELSE IF i2 < 0 \/ i2 >= h2.hi - h2.lo THEN [kind |-> "panic", arrs |-> arrs]
    ELSE MoveLoop([arrs EXCEPT ![h2.arr][h2.lo + i2 + 1] = arrs[h.arr][h.lo + i + 1]],
                  h, h2, i + step, i2 + step, step, n - 1)

\* the checks that both primitives make before they move anything
MoveChecks(name, args) ==
    LET v == First(args)
        start == Second(args)
        end == Third(args)
        v2 == Fourth(args)
        start2 == Fifth(args)
    IN  IF ~VectorP(v)
        THEN name \o " needs a vector as its first vector argument"
        ELSE IF ~IntegerP(start)
        THEN name \o " needs an integer as its starting index"
        ELSE IF IntegerValue(start) < 0 \/ IntegerValue(start) >= Length(v)
        THEN name \o " starting index is out of bounds"
        ELSE IF ~IntegerP(end)
        THEN name \o " needs an integer as its ending index"
        ELSE IF IntegerValue(end) < IntegerValue(start) \/ IntegerValue(end) > Length(v)
        THEN name \o " ending index is out of bounds"
        ELSE IF ~VectorP(v2)
        THEN name \o " needs a vector as its second vector argument"
        ELSE IF ~IntegerP(start2)
        THEN name \o " needs an integer as its second starting index"
        ELSE IF IntegerValue(start) < 0 \/ IntegerValue(start) >= Length(v2)
        THEN name \o " starting index is out of bounds"
        ELSE IF IntegerValue(end) - IntegerValue(start) > Length(v2) - IntegerValue(start2)
        THEN name \o " source subvector is longer than the available space in the destination"
        ELSE NoErr

Moved(run, v2) ==
    IF run.kind = "ok" THEN Outcome("ok", v2, NoErr, run.arrs, vecs, <<>>)
    ELSE Outcome("panic", Nil, NoErr, run.arrs, vecs, <<>>)

SubVectorMoveLeftImpl(args) ==
    LET msg == MoveChecks("subvector-move-left!", args)
    IN  IF msg # NoErr THEN Signal(msg)
        ELSE LET h == vecs[First(args).id]
                 h2 == vecs[Fourth(args).id]
                 startIndex == IntegerValue(Second(args))
                 endIndex == IntegerValue(Third(args))
                 startIndex2 == IntegerValue(Fifth(args))
             IN  Moved(MoveLoop(arrays, h, h2, startIndex, startIndex2, 1,
                                endIndex - startIndex), Fourth(args))

SubVectorMoveRightImpl(args) ==
    LET msg == MoveChecks("subvector-move-right!", args)
    IN  IF msg # NoErr THEN Signal(msg)
        ELSE LET h == vecs[First(args).id]
                 h2 == vecs[Fourth(args).id]
                 startIndex == IntegerValue(Second(args))
                 endIndex == IntegerValue(Third(args))
                 startIndex2 == IntegerValue(Fifth(args))
                 sourceLength == endIndex - startIndex
             IN  Moved(MoveLoop(arrays, h, h2, endIndex - 1,
                                startIndex2 + sourceLength - 1, -1, sourceLength),
                       Fourth(args))

(***************************************************************************)
(* vector-copy, subvector, vector-head, vector-tail: the last three return *)
(* a slice of the argument's slice, a window of the same backing array.    *)
(* vector-fill!, subvector-fill!.                                          *)
(***************************************************************************)
VectorCopyImpl(args) ==
    LET vect == First(args)
    IN  IF ~VectorP(vect)
        THEN Signal("vector-copy needs a vector as its argument")
        ELSE NewVector(VectorValue(vect), <<>>)

\* VectorWithValue(values[startIndex:endIndex]) for the slice h of values
Reslice(h, startIndex, endIndex) ==
    Outcome("ok", VectorWithValue(Len(vecs) + 1), NoErr, arrays,
            Append(vecs, [arr |-> h.arr, lo |-> h.lo + startIndex, hi |-> h.lo + endIndex]),
            <<>>)

SubVectorImpl(args) ==
    LET v == First(args)
        start == Second(args)
        end == Third(args)
    IN  IF ~VectorP(v)
        THEN Signal("subvector needs a vector as its argument")
        ELSE IF ~IntegerP(start)
        THEN Signal("subvector needs an integer as its starting index")
        ELSE IF IntegerValue(start) < 0 \/ IntegerValue(start) >= Length(v)
        THEN Signal("subvector starting index is out of bounds")
        ELSE IF ~IntegerP(end)
        THEN Signal("subvector needs an integer as its ending index")
        ELSE IF IntegerValue(end) < IntegerValue(start) \/ IntegerValue(end) > Length(v)
        THEN Signal("subvector ending index is out of bounds")
        ELSE Reslice(vecs[v.id], IntegerValue(start), IntegerValue(end))

VectorHeadImpl(args) ==
    LET v == First(args)
        end == Second(args)
    IN  IF ~VectorP(v)
        THEN Signal("vector-head needs a vector as its argument")
        ELSE IF ~IntegerP(end)
        THEN Signal("vector-head needs an integer as its ending index")
        ELSE IF IntegerValue(end) < 0 \/ IntegerValue(end) > Length(v)
        THEN Signal("vector-head ending index is out of bounds")
        ELSE Reslice(vecs[v.id], 0, IntegerValue(end))

VectorTailImpl(args) ==
    LET v == First(args)
        start == Second(args)
    IN  IF ~VectorP(v)
        THEN Signal("vector-tail needs a vector as its argument")
        ELSE IF ~IntegerP(start)
        THEN Signal("vector-tail needs an integer as its starting index")
        ELSE IF IntegerValue(start) < 0 \/ IntegerValue(start) > Length(v)
        THEN Signal("vector-tail starting index is out of bounds")
        ELSE Reslice(vecs[v.id], IntegerValue(start), Length(v))

\* values[i] = newValue for startIndex <= i < endIndex, in the slice h
Fill(h, startIndex, endIndex, newValue) ==
    Outcome("ok", Nil, NoErr,
            [arrays EXCEPT ![h.arr] =
                [i \in DOMAIN @ |->
                    IF h.lo + startIndex < i /\ i <= h.lo + endIndex THEN newValue ELSE @[i]]],
            vecs, <<>>)

VectorFillImpl(args) ==
    LET v == First(args)
    IN  IF ~VectorP(v)
        THEN Signal("vector-fill! needs a vector as its argument")
        ELSE Fill(vecs[v.id], 0, Length(v), Second(args))

SubVectorFillImpl(args) ==
    LET v == First(args)
        start == Second(args)
        end == Third(args)
    IN  IF ~VectorP(v)
        THEN Signal("subvector-fill! needs a vector as its argument")
        ELSE IF ~IntegerP(start)
        THEN Signal("subvector-fill! needs an integer as its starting index")
        ELSE IF IntegerValue(start) < 0 \/ IntegerValue(start) >= Length(v)
        THEN Signal("subvector-fill! starting index is out of bounds")
        ELSE IF ~IntegerP(end)
        THEN Signal("subvector-fill! needs an integer as its ending index")
        ELSE IF IntegerValue(end) < IntegerValue(start) \/ IntegerValue(end) > Length(v)
        THEN Signal("subvector-fill! ending index is out of bounds")
        ELSE Fill(vecs[v.id], IntegerValue(start), IntegerValue(end), Fourth(args))

\* DebugImpl: prints and calls DebugRepl(env); result and err stay nil
DebugImpl(args) == Outcome("debug", Nil, NoErr, arrays, vecs, <<>>)

(***************************************************************************)
(* The arithmetic builtins and the conditional (Add is above).  A number   *)
(* is an integer value; operands stay well inside the range of Go's int.   *)
(***************************************************************************)
MaxArgs == 3

MaxClauses == 4

\* the Go runtime panics: integer divide by zero
Fault == [result |-> Nil, err |-> "panic"]

\* Go's integer division, truncated toward zero, for b # 0
GoQuotient(a, b) ==
    LET Abs(n) == IF n < 0 THEN -n ELSE n
        q == Abs(a) \div Abs(b)
    IN  IF (a < 0) # (b < 0) THEN -q ELSE q

RECURSIVE SubtractLoop(_, _)
SubtractLoop(c, acc) ==
    IF c = <<>> THEN Value(IntegerWithValue(acc))
    ELSE IF ~IntegerP(Head(c)) THEN Failure("Number expected")
    ELSE SubtractLoop(Tail(c), acc - IntegerValue(Head(c)))

\* mutant: one operand is returned as it is
SubtractNoNegation(args) ==
    IF ~IntegerP(Head(args)) THEN Failure("Number expected")
    ELSE SubtractLoop(Tail(args), IntegerValue(Head(args)))

Subtract(args) ==
    IF ~IntegerP(Head(args)) THEN Failure("Number expected")
    ELSE IF Len(args) = 1 THEN Value(IntegerWithValue(-IntegerValue(Head(args))))
    ELSE SubtractLoop(Tail(args), IntegerValue(Head(args)))

RECURSIVE Multiply(_, _)
Multiply(args, acc) ==
    IF args = <<>> THEN Value(IntegerWithValue(acc))
    ELSE IF ~IntegerP(Head(args)) THEN Failure("Number expected")
    ELSE Multiply(Tail(args), acc * IntegerValue(Head(args)))

RECURSIVE QuotientLoop(_, _)
QuotientLoop(c, acc) ==
    IF c = <<>> THEN Value(IntegerWithValue(acc))
    ELSE IF ~IntegerP(Head(c)) THEN Failure("Number expected")
    ELSE IF IntegerValue(Head(c)) = 0 THEN Fault
    ELSE QuotientLoop(Tail(c), GoQuotient(acc, IntegerValue(Head(c))))

Quotient(args) ==
    IF ~IntegerP(Head(args)) THEN Failure("Number expected")
    ELSE QuotientLoop(Tail(args), IntegerValue(Head(args)))

\* Car, Cadr, Caddr of the argument list: nil where the list has ended
Clause(args, i) == IF i <= Len(args) THEN args[i] ELSE Nil

\* Eval of a self-evaluating datum
EvalDatum(d) == d

\* mutant: both branches are evaluated before the condition is looked at
IfEager(args) ==
    LET condition == BooleanValue(EvalDatum(Clause(args, 1)))
        thenClause == Clause(args, 2)
        elseClause == Clause(args, 3)
        all == <<<<Clause(args, 1)>>, <<thenClause>>, <<elseClause>>>>
    IN  IF Len(args) > 3
        THEN Outcome("err", Nil, "Too many arguments to IF", arrays, vecs,
                     <<<<Clause(args, 1)>>>>)
        ELSE Outcome("ok", EvalDatum(IF condition THEN thenClause ELSE elseClause),
                     NoErr, arrays, vecs, all)

\* mutant: a clause after the else-branch is ignored
IfAnyLength(args) ==
    LET condition == BooleanValue(EvalDatum(Clause(args, 1)))
        thenClause == Clause(args, 2)
        elseClause == Clause(args, 3)
        evaluated == <<<<Clause(args, 1)>>>>
    IN  IF condition
        THEN Outcome("ok", EvalDatum(thenClause), NoErr, arrays, vecs,
                     Append(evaluated, <<thenClause>>))
        ELSE Outcome("ok", EvalDatum(elseClause), NoErr, arrays, vecs,
                     Append(evaluated, <<elseClause>>))

\* applied: the clauses given to Eval, in order
If(args) ==
    LET condition == BooleanValue(EvalDatum(Clause(args, 1)))
        thenClause == Clause(args, 2)
        elseClause == Clause(args, 3)
        evaluated == <<<<Clause(args, 1)>>>>
    IN  IF Len(args) > 3
        THEN Outcome("err", Nil, "Too many arguments to IF", arrays, vecs, evaluated)
        ELSE IF condition
        THEN Outcome("ok", EvalDatum(thenClause), NoErr, arrays, vecs,
                     Append(evaluated, <<thenClause>>))
        ELSE Outcome("ok", EvalDatum(elseClause), NoErr, arrays, vecs,
                     Append(evaluated, <<elseClause>>))

(***************************************************************************)
(* Frames of the native call stack.                                        *)
(*  eval: pc "start" (operands evaluated, primitive not yet called),       *)
(*        "inPE" (inside ProcessError, DebugRepl above), "inDebug" (inside *)
(*        DebugImpl, DebugRepl above), "ret" (the primitive has returned   *)
(*        result and err to Eval), "done" (Eval has returned to the host), *)
(*        "fault" (a panic left the primitive).  sig is the message the    *)
(*        primitive gave to ProcessError, ended the command that ended the *)
(*        session it was suspended in, rv the value a return-with-value    *)
(*        command installed.                                               *)
(*  repl: pc "read" (blocked in ReadLine), "typed" (evaluating a typed     *)
(*        expression), "r" (evaluating the expression of :r).              *)
(***************************************************************************)
EvalFrame(env) ==
    [k |-> "eval", env |-> env, pc |-> "start", op |-> "", args |-> <<>>,
     result |-> Nil, err |-> NoErr, sig |-> NoErr, ended |-> "", rv |-> Nil,
     applied |-> <<>>]

ReplFrame(env) == [k |-> "repl", env |-> env, pc |-> "read"]

Envs == {"global", "local"}

NoFrame == "nil"

Top == stack[Len(stack)]

Pop(s) == SubSeq(s, 1, Len(s) - 1)

SetTop(s, f) == [s EXCEPT ![Len(s)] = f]

AtStart == status = "run" /\ Len(stack) > 0 /\ Top.k = "eval" /\ Top.pc = "start"

AtRead == status = "run" /\ Len(stack) > 0 /\ Top.k = "repl" /\ Top.pc = "read"

AtRet == status = "run" /\ Len(stack) > 0 /\ Top.k = "eval" /\ Top.pc = "ret"

AtTopLevel == Len(stack) = 1

ReplDepth(s) == Cardinality({i \in 1..Len(s) : s[i].k = "repl"})

(***************************************************************************)
(* ProcessError: the condition under which it calls DebugRepl.             *)
(***************************************************************************)
\* mutant: the recursion-suppression flag is not consulted
ProcessErrorEntersUnguarded == DebugOnError /\ IsInteractive

ProcessErrorEnters == DebugOnError /\ IsInteractive /\ ~DebugEvalInDebugRepl

\* mutant: ProcessError returns the failure once the command loop has ended
ResumedFailing(f, cmd, rv) ==
    [f EXCEPT !.pc = "ret", !.result = Nil, !.err = f.sig, !.ended = cmd, !.rv = rv]

\* DebugRepl returned to the ProcessError or DebugImpl call that made it:
\* ProcessError returns nil, the primitive returns (nil, nil)
Resumed(f, cmd, rv) ==
    [f EXCEPT !.pc = "ret", !.result = Nil, !.err = NoErr, !.ended = cmd, !.rv = rv]

\* s is the stack with a repl frame on top; the repl returns to its caller
ReplReturns(s, cmd, rv) ==
    LET below == Pop(s)
    IN  SetTop(below, Resumed(below[Len(below)], cmd, rv))

\* ProcessError(errorMessage, env), called by the primitive of frame f
ProcessError(errorMessage, f) ==
    IF ProcessErrorEnters
    THEN Append(SetTop(stack, [f EXCEPT !.pc = "inPE", !.sig = errorMessage]),
                ReplFrame(f.env))
    ELSE SetTop(stack, [f EXCEPT !.pc = "ret", !.sig = errorMessage,
                                 !.err = errorMessage])

(***************************************************************************)
(* A primitive is called with evaluated arguments: the body runs to its    *)
(* return, to its ProcessError or DebugRepl call, or to a panic.           *)
(***************************************************************************)
Invoke(op, args, out) ==
    LET f == [Top EXCEPT !.op = op, !.args = args, !.applied = out.applied]
    IN
    /\ AtStart
    /\ arrays' = out.arrs
    /\ vecs' = out.vs
    /\ UNCHANGED flagVars
    /\ CASE out.kind = "ok" ->
              /\ stack' = SetTop(stack, [f EXCEPT !.pc = "ret", !.result = out.result])
              /\ UNCHANGED status
         [] out.kind = "err" ->
              /\ stack' = SetTop(stack, [f EXCEPT !.pc = "ret", !.err = out.msg])
              /\ UNCHANGED status
         [] out.kind = "signal" ->
              /\ stack' = ProcessError(out.msg, f)
              /\ UNCHANGED status
         [] out.kind = "debug" ->
              /\ stack' = Append(SetTop(stack, [f EXCEPT !.pc = "inDebug"]), ReplFrame(f.env))
              /\ UNCHANGED status
         [] out.kind = "panic" ->
              \* the panic unwinds to the deferred recover of the nearest
              \* DebugRepl, which then returns; with none, the process dies
              IF Len(stack) > 1
              THEN /\ stack' = ReplReturns(Pop(stack), "bang", Nil)
                   /\ UNCHANGED status
              ELSE /\ stack' = SetTop(stack, [f EXCEPT !.pc = "fault"])
                   /\ status' = "fault"

(***************************************************************************)
(* The host evaluates one expression, a call of a primitive, in env.  The  *)
(* vectors the previous evaluation made are unreachable by then: the host  *)
(* holds the first vector only.                                            *)
(***************************************************************************)
HostEval(env) ==
    /\ status = "run"
    /\ stack = <<>> \/ (AtTopLevel /\ Top.pc = "done")
    /\ stack' = <<EvalFrame(env)>>
    /\ arrays' = SubSeq(arrays, 1, 1)
    /\ vecs' = SubSeq(vecs, 1, 1)
    /\ UNCHANGED <<flagVars, status>>

VecArgs == {VectorWithValue(i) : i \in 1..Len(vecs)}

IdxArgs == {IntegerWithValue(n) : n \in -1..MaxLen}

CallVectorRef ==
    \E v \in VecArgs, k \in IdxArgs :
        Invoke("vector-ref", <<v, k>>, VectorRefImpl(<<v, k>>))

CallVectorSet ==
    \E v \in VecArgs, k \in IdxArgs, x \in Elems :
        Invoke("vector-set!", <<v, k, x>>, VectorSetImpl(<<v, k, x>>))

CallVectorGrow ==
    \E v \in VecArgs, k \in IdxArgs :
        Invoke("vector-grow", <<v, k>>, VectorGrowImpl(<<v, k>>))

CallMakeInitializedVector ==
    \E k \in IdxArgs, f \in Fns :
        Invoke("make-initialized-vector", <<k, f>>, MakeInitializedVectorImpl(<<k, f>>))

CallVectorMap ==
    \E f \in Fns, v \in VecArgs : \E cols \in {<<v>>, <<v, v>>} :
        Invoke("vector-map", <<f>> \o cols, VectorMapImpl(<<f>> \o cols))

CallVectorForEach ==
    \E f \in Fns, v \in VecArgs : \E cols \in {<<v>>, <<v, v>>} :
        Invoke("vector-for-each", <<f>> \o cols, VectorForEachImpl(<<f>> \o cols))

CallVectorReduce ==
    \E f \in Fns, initial \in Elems, v \in VecArgs :
        Invoke("vector-reduce", <<f, initial, v>>, VectorReduceImpl(<<f, initial, v>>))

CallVectorFilter ==
    \E f \in Fns, v \in VecArgs :
        Invoke("vector-filter", <<f, v>>, VectorFilterImpl(<<f, v>>))

CallVectorRemove ==
    \E f \in Fns, v \in VecArgs :
        Invoke("vector-remove", <<f, v>>, VectorRemoveImpl(<<f, v>>))

CallVectorFind ==
    \E f \in Fns, v \in VecArgs :
        Invoke("vector-find", <<f, v>>, VectorFindImpl(<<f, v>>))

CallVectorSort ==
    \E v \in VecArgs, proc \in Comparators :
        Invoke("vector-sort", <<v, proc>>, VectorSortImpl(<<v, proc>>))

CallVectorSortInPlace ==
    \E v \in VecArgs, proc \in Comparators :
        Invoke("vector-sort!", <<v, proc>>, VectorSortInPlaceImpl(<<v, proc>>))

\* the last backing array that the vectors vs are windows of
LastArray(vs) ==
    IF vs = <<>> THEN 0
    ELSE CHOOSE a \in {vs[i].arr : i \in 1..Len(vs)} : \A i \in 1..Len(vs) : vs[i].arr <= a

\* the host, holding the first n vectors and their backing arrays, evaluates
\* an expression in env
HostEvalHolding(env, n) ==
    /\ status = "run"
    /\ stack = <<>> \/ (AtTopLevel /\ Top.pc = "done")
    /\ stack' = <<EvalFrame(env)>>
    /\ n <= Len(vecs)
    /\ arrays' = SubSeq(arrays, 1, LastArray(SubSeq(vecs, 1, n)))
    /\ vecs' = SubSeq(vecs, 1, n)
    /\ UNCHANGED <<flagVars, status>>

MoveArgs ==
    {<<v, start, end, v2, start2>> :
        v \in VecArgs, start \in IdxArgs, end \in IdxArgs, v2 \in VecArgs, start2 \in IdxArgs}

CallSubVectorMoveLeft ==
    /\ AtStart
    /\ \E args \in MoveArgs :
          Invoke("subvector-move-left!", args, SubVectorMoveLeftImpl(args))

CallSubVectorMoveRight ==
    /\ AtStart
    /\ \E args \in MoveArgs :
          Invoke("subvector-move-right!", args, SubVectorMoveRightImpl(args))

\* the calls that make a second vector out of the one the host holds
CallVectorCopy ==
    /\ AtStart
    /\ Len(vecs) = 1
    /\ \E v \in VecArgs : Invoke("vector-copy", <<v>>, VectorCopyImpl(<<v>>))

CallSubVector ==
    /\ AtStart
    /\ Len(vecs) = 1
    /\ \E v \in VecArgs, start \in IdxArgs, end \in IdxArgs :
          Invoke("subvector", <<v, start, end>>, SubVectorImpl(<<v, start, end>>))

CallVectorHead ==
    /\ AtStart
    /\ Len(vecs) = 1
    /\ \E v \in VecArgs, end \in IdxArgs :
          Invoke("vector-head", <<v, end>>, VectorHeadImpl(<<v, end>>))

CallVectorTail ==
    /\ AtStart
    /\ Len(vecs) = 1
    /\ \E v \in VecArgs, start \in IdxArgs :
          Invoke("vector-tail", <<v, start>>, VectorTailImpl(<<v, start>>))

CallVectorFill ==
    /\ AtStart
    /\ \E v \in VecArgs, x \in Elems :
          Invoke("vector-fill!", <<v, x>>, VectorFillImpl(<<v, x>>))

CallSubVectorFill ==
    /\ AtStart
    /\ \E v \in VecArgs, start \in IdxArgs, end \in IdxArgs, x \in Elems :
          Invoke("subvector-fill!", <<v, start, end, x>>,
                 SubVectorFillImpl(<<v, start, end, x>>))

CallDebug == Invoke("debug", <<>>, DebugImpl(<<>>))

\* a self-evaluating expression: it evaluates to itself
EvalConstant ==
    \E d \in Elems : Invoke("constant", <<d>>, Ok(d))

(***************************************************************************)
(* Calls of the arithmetic builtins and of the conditional.  Apply checks  *)
(* the argument count against the registered arity before the body runs:   *)
(* all five are registered with -1, at least one argument.                 *)
(***************************************************************************)
Numbers == {-7, 0, 1, 2, 5, 10, 100}

Operands == {Nil} \cup {IntegerWithValue(n) : n \in Numbers}

Clauses == {Nil, LispFalse, BooleanWithValue(TRUE), IntegerWithValue(0), IntegerWithValue(1)}

Builtins == {"+", "-", "*", "/"}

\* what a builtin returns, as the outcome of a call
Returns(r) ==
    IF r = Fault THEN Panic
    ELSE IF r.err # NoErr THEN Outcome("err", Nil, r.err, arrays, vecs, <<>>)
    ELSE Ok(r.result)

Apply(op, args) ==
    IF Len(args) = 0
    THEN Outcome("err", Nil, "Wrong number of arguments", arrays, vecs, <<>>)
    ELSE CASE op = "+" -> Returns(Add(args, 0))
           [] op = "-" -> Returns(Subtract(args))
           [] op = "*" -> Returns(Multiply(args, 1))
           [] op = "/" -> Returns(Quotient(args))
           [] op = "if" -> If(args)

CallAdd ==
    /\ AtStart
    /\ \E args \in SeqsUpTo(Operands, MaxArgs) : Invoke("+", args, Apply("+", args))

CallSubtract ==
    /\ AtStart
    /\ \E args \in SeqsUpTo(Operands, MaxArgs) : Invoke("-", args, Apply("-", args))

CallMultiply ==
    /\ AtStart
    /\ \E args \in SeqsUpTo(Operands, MaxArgs) : Invoke("*", args, Apply("*", args))

CallQuotient ==
    /\ AtStart
    /\ \E args \in SeqsUpTo(Operands, MaxArgs) : Invoke("/", args, Apply("/", args))

CallIf ==
    /\ AtStart
    /\ \E args \in SeqsUpTo(Clauses, MaxClauses) : Invoke("if", args, Apply("if", args))

(***************************************************************************)
(* DebugRepl: one action per command read by ReadLine.                     *)
(***************************************************************************)
\* ":c"
CmdContinue ==
    /\ AtRead
    /\ DebugCurrentFrame' = NoFrame
    /\ DebugSingleStep' = FALSE
    /\ DebugEvalInDebugRepl' = FALSE
    /\ stack' = ReplReturns(stack, "c", Nil)
    /\ UNCHANGED <<heapVars, DebugOnError, IsInteractive, DebugReturnValue, status>>

\* ":e on" and ":e off"
CmdDebugOnError ==
    /\ AtRead
    /\ \E state \in BOOLEAN : DebugOnError' = state
    /\ UNCHANGED <<heapVars, IsInteractive, DebugEvalInDebugRepl, DebugSingleStep,
                   DebugCurrentFrame, DebugReturnValue, stack, status>>

\* ":q": QuitImpl ends the process
CmdQuit ==
    /\ AtRead
    /\ status' = "quit"
    /\ UNCHANGED <<heapVars, flagVars, stack>>

\* ":r sexpr", up to the call of Eval
CmdReturn ==
    /\ AtRead
    /\ ReplDepth(stack) < MaxNest
    /\ DebugEvalInDebugRepl' = TRUE
    /\ stack' = Append(SetTop(stack, [Top EXCEPT !.pc = "r"]), EvalFrame(Top.env))
    /\ UNCHANGED <<heapVars, DebugOnError, IsInteractive, DebugSingleStep,
                   DebugCurrentFrame, DebugReturnValue, status>>

\* ":r" with text that Parse rejects: the err of Parse is overwritten by the
\* err of Eval, which is given no code and returns (nil, nil)
CmdReturnUnparsable ==
    /\ AtRead
    /\ DebugReturnValue' = EvalDatum(Nil)
    /\ DebugCurrentFrame' = NoFrame
    /\ DebugSingleStep' = FALSE
    /\ DebugEvalInDebugRepl' = FALSE
    /\ stack' = ReplReturns(stack, "r", Nil)
    /\ UNCHANGED <<heapVars, DebugOnError, IsInteractive, status>>

\* ":s"
CmdSingleStep ==
    /\ AtRead
    /\ DebugSingleStep' = TRUE
    /\ stack' = ReplReturns(stack, "s", Nil)
    /\ UNCHANGED <<heapVars, DebugOnError, IsInteractive, DebugEvalInDebugRepl,
                   DebugCurrentFrame, DebugReturnValue, status>>

\* ":u"
CmdStepOut ==
    /\ AtRead
    /\ IF Top.env # "global"
       THEN /\ DebugCurrentFrame' = Top.env
            /\ stack' = ReplReturns(stack, "u", Nil)
       ELSE UNCHANGED <<DebugCurrentFrame, stack>>
    /\ UNCHANGED <<heapVars, DebugOnError, IsInteractive, DebugEvalInDebugRepl,
                   DebugSingleStep, DebugReturnValue, status>>

\* a line without the command prefix, up to the call of Eval
TypeExpression ==
    /\ AtRead
    /\ ReplDepth(stack) < MaxNest
    /\ DebugEvalInDebugRepl' = TRUE
    /\ stack' = Append(SetTop(stack, [Top EXCEPT !.pc = "typed"]), EvalFrame(Top.env))
    /\ UNCHANGED <<heapVars, DebugOnError, IsInteractive, DebugSingleStep,
                   DebugCurrentFrame, DebugReturnValue, status>>

(***************************************************************************)
(* Eval returns.  EvalResult is what Eval yields for a primitive call that *)
(* returned: a pending override value replaces the result of a call that   *)
(* returned no failure, and is consumed.                                   *)
(***************************************************************************)
Overrides(f) == f.err = NoErr /\ DebugReturnValue # Nil

EvalResult(f) ==
    [f EXCEPT !.pc = "done",
              !.result = IF Overrides(f) THEN DebugReturnValue ELSE f.result]

\* Eval returns to the host
HostEvalDone ==
    /\ AtRet
    /\ AtTopLevel
    /\ stack' = <<EvalResult(Top)>>
    /\ DebugReturnValue' = IF Overrides(Top) THEN Nil ELSE DebugReturnValue
    /\ UNCHANGED <<heapVars, DebugOnError, IsInteractive, DebugEvalInDebugRepl,
                   DebugSingleStep, DebugCurrentFrame, status>>

\* Eval returns to DebugRepl, which evaluated a typed expression
ReplTypedDone ==
    /\ AtRet
    /\ ~AtTopLevel
    /\ stack[Len(stack) - 1].pc = "typed"
    /\ DebugEvalInDebugRepl' = FALSE
    /\ stack' = SetTop(Pop(stack), [stack[Len(stack) - 1] EXCEPT !.pc = "read"])
    /\ DebugReturnValue' = IF Overrides(Top) THEN Nil ELSE DebugReturnValue
    /\ UNCHANGED <<heapVars, DebugOnError, IsInteractive, DebugSingleStep,
                   DebugCurrentFrame, status>>

\* Eval returns to DebugRepl, which evaluated the expression of ":r"
ReplReturnDone ==
    /\ AtRet
    /\ ~AtTopLevel
    /\ stack[Len(stack) - 1].pc = "r"
    /\ DebugEvalInDebugRepl' = FALSE
    /\ LET d == EvalResult(Top).result
       IN  IF Top.err # NoErr
           THEN /\ stack' = SetTop(Pop(stack), [stack[Len(stack) - 1] EXCEPT !.pc = "read"])
                /\ DebugReturnValue' = IF Overrides(Top) THEN Nil ELSE DebugReturnValue
                /\ UNCHANGED <<DebugCurrentFrame, DebugSingleStep>>
           ELSE /\ DebugReturnValue' = d
                /\ DebugCurrentFrame' = NoFrame
                /\ DebugSingleStep' = FALSE
                /\ stack' = ReplReturns(Pop(stack), "r", d)
    /\ UNCHANGED <<heapVars, DebugOnError, IsInteractive, status>>

(***************************************************************************)
(* The specifications.  SpecDebug: the debug controller in full, over a    *)
(* fixed vector, with the expressions vector-ref, debug and constants.     *)
(* SpecVector: every vector primitive over every vector, called by the     *)
(* host; at the debugger's prompt the user continues or returns a constant.*)
(***************************************************************************)
InitFlags ==
    /\ DebugOnError \in BOOLEAN
    /\ IsInteractive \in BOOLEAN
    /\ DebugEvalInDebugRepl = FALSE
    /\ DebugSingleStep = FALSE
    /\ DebugCurrentFrame = NoFrame
    /\ DebugReturnValue = Nil
    /\ stack = <<>>
    /\ status = "run"

InitVector ==
    /\ \E a \in SeqsUpTo(Elems, MaxLen) :
          /\ arrays = <<a>>
          /\ vecs = <<[arr |-> 1, lo |-> 0, hi |-> Len(a)]>>
    /\ InitFlags

InitDebug ==
    /\ arrays = <<[i \in 1..MaxLen |-> IntegerWithValue(0)]>>
    /\ vecs = <<[arr |-> 1, lo |-> 0, hi |-> MaxLen]>>
    /\ InitFlags

NextDebug ==
    \/ \E env \in Envs : HostEval(env)
    \/ CallVectorRef
    \/ CallDebug
    \/ EvalConstant
    \/ CmdContinue
    \/ CmdDebugOnError
    \/ CmdQuit
    \/ CmdReturn
    \/ CmdReturnUnparsable
    \/ CmdSingleStep
    \/ CmdStepOut
    \/ TypeExpression
    \/ HostEvalDone
    \/ ReplTypedDone
    \/ ReplReturnDone

NextVector ==
    \/ HostEval("global")
    \/ AtTopLevel /\ CallVectorRef
    \/ AtTopLevel /\ CallVectorSet
    \/ AtTopLevel /\ CallVectorGrow
    \/ AtTopLevel /\ CallMakeInitializedVector
    \/ AtTopLevel /\ CallVectorMap
    \/ AtTopLevel /\ CallVectorForEach
    \/ AtTopLevel /\ CallVectorReduce
    \/ AtTopLevel /\ CallVectorFilter
    \/ AtTopLevel /\ CallVectorRemove
    \/ AtTopLevel /\ CallVectorFind
    \/ AtTopLevel /\ CallVectorSort
    \/ AtTopLevel /\ CallVectorSortInPlace
    \/ EvalConstant
    \/ CmdContinue
    \/ CmdReturn
    \/ HostEvalDone
    \/ ReplReturnDone

SpecDebug == InitDebug /\ [][NextDebug]_vars

SpecVector == InitVector /\ [][NextVector]_vars

\* the arithmetic builtins and the conditional, called by the host
NextArith ==
    \/ HostEval("global")
    \/ CallAdd
    \/ CallSubtract
    \/ CallMultiply
    \/ CallQuotient
    \/ CallIf
    \/ HostEvalDone

SpecArith == InitDebug /\ [][NextArith]_vars

\* two vectors whose elements tell their places: 0, 1, ... in the first and
\* MaxLen, MaxLen + 1, ... in the second
InitMove ==
    /\ \E n \in 0..MaxLen, n2 \in 0..MaxLen :
          /\ arrays = <<[i \in 1..n |-> IntegerWithValue(i - 1)],
                        [i \in 1..n2 |-> IntegerWithValue(MaxLen + i - 1)]>>
          /\ vecs = <<[arr |-> 1, lo |-> 0, hi |-> n], [arr |-> 2, lo |-> 0, hi |-> n2]>>
    /\ InitFlags

\* one move between the two vectors, or within one of them
NextMove ==
    \/ stack = <<>> /\ HostEvalHolding("global", 2)
    \/ CallSubVectorMoveLeft
    \/ CallSubVectorMoveRight
    \/ CmdContinue
    \/ HostEvalDone

SpecMove == InitMove /\ [][NextMove]_vars

\* a vector of zeros, of any length, in a host that is not interactive
InitShare ==
    /\ \E n \in 0..MaxLen :
          /\ arrays = <<[i \in 1..n |-> IntegerWithValue(0)]>>
          /\ vecs = <<[arr |-> 1, lo |-> 0, hi |-> n]>>
    /\ DebugOnError = FALSE
    /\ IsInteractive = FALSE
    /\ DebugEvalInDebugRepl = FALSE
    /\ DebugSingleStep = FALSE
    /\ DebugCurrentFrame = NoFrame
    /\ DebugReturnValue = Nil
    /\ stack = <<>>
    /\ status = "run"

\* the host makes a second vector out of the first and keeps both; later
\* evaluations write into either
NextShare ==
    \/ HostEvalHolding("global", Len(vecs))
    \/ CallVectorCopy
    \/ CallSubVector
    \/ CallVectorHead
    \/ CallVectorTail
    \/ CallVectorSet
    \/ CallVectorFill
    \/ CallSubVectorFill
    \/ HostEvalDone

SpecShare == InitShare /\ [][NextShare]_vars

(***************************************************************************)
(* Properties.                                                             *)
(***************************************************************************)
\* the eval frames of the stack that satisfy P
Frames == {stack[i] : i \in {j \in 1..Len(stack) : stack[j].k = "eval"}}

Returned(f) == f.pc \in {"ret", "done"}

\* this step is the call of primitive op: the frame on top takes its name
Calls(op) ==
    /\ AtStart
    /\ Len(stack') >= Len(stack)
    /\ stack'[Len(stack)].op = op

\* the frame of the call made in this step, as the step leaves it
Called == stack'[Len(stack)]

\* C1: signal_error (ProcessError) enters the debugger command loop if and
\* only if break-on-error is enabled, execution is interactive and no
\* debugger-typed expression is being evaluated; otherwise it opens no command
\* loop and returns a failure carrying the given message.
C1_SignalErrorPolicy ==
    [][(AtStart /\ Len(stack') >= Len(stack) /\ Called.sig # NoErr)
        => IF DebugOnError /\ IsInteractive /\ ~DebugEvalInDebugRepl
           THEN /\ Len(stack') = Len(stack) + 1
                /\ stack'[Len(stack')] = ReplFrame(Top.env)
                /\ Called.pc = "inPE"
           ELSE /\ Len(stack') = Len(stack)
                /\ Called.pc = "ret"
                /\ Called.err = Called.sig
                /\ Called.result = Nil]_vars

\* both cases in one state: a failure suspended in the command loop, and below
\* the prompt a typed expression whose failure was returned
C1_Witness ==
    /\ Len(stack) = 3
    /\ stack[1].pc = "inPE"
    /\ stack[2].k = "repl"
    /\ stack[3].pc = "ret"
    /\ stack[3].sig # NoErr
    /\ stack[3].err = stack[3].sig

\* C2: when a failing evaluation has suspended into the command loop and a
\* return-with-value command evaluates its expression to v, the session ends
\* and the failing evaluation completes without a failure, with v as its result.
C2_ReturnWithValue ==
    \A f \in Frames :
        (Returned(f) /\ f.sig # NoErr /\ f.ended = "r")
        => /\ f.err = NoErr
           /\ f.pc = "ret" => (f = Top /\ DebugReturnValue = f.rv)
           /\ f.pc = "done" => f.result = f.rv

C2_Witness ==
    /\ Len(stack) = 1
    /\ Top.pc = "done"
    /\ Top.sig # NoErr
    /\ Top.ended = "r"
    /\ Top.rv # Nil
    /\ Top.result = Top.rv
    /\ DebugOnError
    /\ IsInteractive

\* C3: when the session a failure suspended into is ended by continue or by
\* single-step, the failing evaluation yields a message-carrying failure to its
\* caller and does not complete as a success.
C3_ContinuePropagates ==
    \A f \in Frames :
        (Returned(f) /\ f.sig # NoErr /\ f.ended \in {"c", "s"})
        => f.err # NoErr

\* C4: at most one debugger pause is outstanding at any time.
C4_OnePause == ReplDepth(stack) <= 1

\* the higher-order vector primitives, and the function a call of one applies
HigherOrder ==
    {"vector-map", "vector-for-each", "vector-reduce", "vector-filter",
     "vector-remove", "vector-find", "make-initialized-vector"}

FunctionOf(f) == IF f.op = "make-initialized-vector" THEN f.args[2] ELSE f.args[1]

\* the i-th application the call of frame f made failed
FailedAt(f, i) == ApplyWithoutEval(FunctionOf(f), f.applied[i]).err # NoErr

\* C5: in the higher-order vector primitives, when the applied function fails
\* on an element, the function is applied to no later element and the
\* primitive returns a failure with no result to its caller.
C5_FailureStopsPrimitive ==
    \A f \in Frames :
        (f.op \in HigherOrder /\ \E i \in 1..Len(f.applied) : FailedAt(f, i))
        => /\ \A i \in 1..Len(f.applied) : FailedAt(f, i) => i = Len(f.applied)
           /\ Returned(f) => (f.err # NoErr /\ f.result = Nil)

InBounds(v, k) == 0 <= IntegerValue(k) /\ IntegerValue(k) < Length(v)

\* C6: for any vector v, index i with 0 <= i < length(v) and value x,
\* vector-set!(v, i, x) followed by vector-ref(v, i) returns x.
C6_SetThenRef ==
    [][\A v \in VecArgs, k \in IdxArgs, x \in Elems :
          (Calls("vector-set!") /\ Called.args = <<v, k, x>> /\ InBounds(v, k))
          => /\ Called.pc = "ret"
             /\ Called.err = NoErr
             /\ VectorRefImpl(<<v, k>>)'.kind = "ok"
             /\ VectorRefImpl(<<v, k>>)'.result = x]_vars

\* vector-set! has just written an element that vector-ref now returns
C6_Witness ==
    /\ AtRet
    /\ Top.op = "vector-set!"
    /\ Top.err = NoErr
    /\ Length(Top.args[1]) = MaxLen
    /\ VectorRefImpl(<<Top.args[1], Top.args[2]>>).result = Top.args[3]
    /\ Top.args[3] # Nil

\* C7: vector-ref and vector-set! called with an integer index that is
\* negative or not less than the vector's length fail with a message-carrying
\* IndexError and no result, never with a native fault, and leave the vector
\* unchanged.
C7_IndexError ==
    [][/\ \A op \in {"vector-ref", "vector-set!"} :
            (Calls(op) /\ ~InBounds(Called.args[1], Called.args[2]))
            => /\ Called.pc # "fault"
               /\ status' = "run"
               /\ Called.pc = "ret" => (Called.err # NoErr /\ Called.result = Nil)
               /\ arrays' = arrays
               /\ vecs' = vecs
       /\ (\A f \in Frames :
             (Returned(f) /\ f.op \in {"vector-ref", "vector-set!"}
                          /\ ~InBounds(f.args[1], f.args[2]))
             => (f.err # NoErr /\ f.result = Nil))']_vars

Count(s, x) == Cardinality({i \in 1..Len(s) : s[i] = x})

Range(s) == {s[i] : i \in 1..Len(s)}

Permutation(a, b) ==
    /\ Len(a) = Len(b)
    /\ \A x \in Range(a) \cup Range(b) : Count(a, x) = Count(b, x)

\* no element comes after one that proc puts it before
Ordered(s, proc) ==
    \A i, j \in 1..Len(s) :
        i < j => ApplyWithoutEval(proc, <<s[j], s[i]>>).result # BooleanWithValue(TRUE)

\* C8: vector-sort(v, cmp) returns a vector that is a permutation of v
\* ordered per cmp, and the contents of v are the same after the call as
\* before it.
C8_SortPermutation ==
    [][\A v \in VecArgs, proc \in Comparators :
          (Calls("vector-sort") /\ Called.args = <<v, proc>>)
          => /\ SliceOf(arrays', vecs', v) = VectorValue(v)
             /\ (Called.pc = "ret" /\ Called.err = NoErr)
                => /\ VectorP(Called.result)
                   /\ Called.result # v
                   /\ Permutation(SliceOf(arrays', vecs', Called.result), VectorValue(v))
                   /\ Ordered(SliceOf(arrays', vecs', Called.result), proc)]_vars

\* vector-sort returned a vector whose elements are those of v in another order
C8_Witness ==
    /\ AtRet
    /\ Top.op = "vector-sort"
    /\ Top.err = NoErr
    /\ Length(Top.args[1]) = MaxLen
    /\ VectorValue(Top.result) # VectorValue(Top.args[1])
    /\ Permutation(VectorValue(Top.result), VectorValue(Top.args[1]))

\* C9: vector-sort!(v, cmp) leaves v holding exactly the sequence that
\* vector-sort(v, cmp) returns for the same input and comparator, and its
\* result is the vector v itself, not a new vector.
C9_SortInPlace ==
    [][\A v \in VecArgs, proc \in Comparators :
          (Calls("vector-sort!") /\ Called.args = <<v, proc>>)
          => LET sorted == VectorSortImpl(<<v, proc>>)
             IN  sorted.kind = "ok"
                 => /\ Called.pc = "ret"
                    /\ Called.err = NoErr
                    /\ Called.result = v
                    /\ vecs' = vecs
                    /\ Len(arrays') = Len(arrays)
                    /\ SliceOf(arrays', vecs', v)
                         = SliceOf(sorted.arrs, sorted.vs, sorted.result)]_vars

\* vector-sort! returned its argument, which it has reordered
C9_Witness ==
    /\ AtRet
    /\ Top.op = "vector-sort!"
    /\ Top.err = NoErr
    /\ Top.result = Top.args[1]
    /\ Length(Top.result) = MaxLen
    /\ Ordered(VectorValue(Top.result), Top.args[2])
    /\ ~Ordered(VectorValue(Top.result), PrimitiveWithName(
                   IF Top.args[2].f = "<" THEN ">" ELSE "<"))

\* the result of vector-grow(v, k) for k > length(v): a new vector of length k
\* that starts with the elements of v
Grown(v, k, result) ==
    /\ VectorP(result)
    /\ result # v
    /\ Len(SliceOf(arrays', vecs', result)) = IntegerValue(k)
    /\ SubSeq(SliceOf(arrays', vecs', result), 1, Length(v)) = VectorValue(v)

GrowFailed(f) == f.err # NoErr /\ f.result = Nil

\* C10: vector-grow(v, k) with k > length(v) returns a new vector
\* of length k whose first length(v) elements are those of v, and leaves v
\* unchanged; with k <= length(v) it fails with an error and returns no result.
C10_Grow ==
    [][/\ \A v \in VecArgs, k \in IdxArgs :
            (Calls("vector-grow") /\ Called.args = <<v, k>>)
            => /\ SliceOf(arrays', vecs', v) = VectorValue(v)
               /\ vecs'[v.id] = vecs[v.id]
               /\ IF IntegerValue(k) > Length(v)
                  THEN Called.pc = "ret" /\ Called.err = NoErr /\ Grown(v, k, Called.result)
                  ELSE Called.pc = "ret" => GrowFailed(Called)
       /\ (\A f \in Frames :
             (Returned(f) /\ f.op = "vector-grow"
                          /\ IntegerValue(f.args[2]) <= Length(f.args[1]))
             => GrowFailed(f))']_vars

(***************************************************************************)
(* The arithmetic builtins.                                                *)
(***************************************************************************)
Numeric(args) == \A i \in 1..Len(args) : IntegerP(args[i])

RECURSIVE SumOf(_)
SumOf(s) == IF s = <<>> THEN 0 ELSE IntegerValue(Head(s)) + SumOf(Tail(s))

RECURSIVE ProductOf(_)
ProductOf(s) == IF s = <<>> THEN 1 ELSE IntegerValue(Head(s)) * ProductOf(Tail(s))

Succeeded(f, n) == f.err = NoErr /\ f.result = IntegerWithValue(n)

\* the operator applied to the results of the operator on the two parts of
\* args split after the k-th operand
Grouped(op, args, k) ==
    LET left == Apply(op, SubSeq(args, 1, k)).result
        right == Apply(op, SubSeq(args, k + 1, Len(args))).result
    IN  Apply(op, <<left, right>>).result

\* C11: + with zero arguments yields 0 and * with zero arguments yields 1;
\* over one or more numeric operands + returns the sum and * the product of
\* all operands, whatever the grouping of the operands.
C11_SumAndProduct ==
    \A f \in Frames :
        (Returned(f) /\ f.op \in {"+", "*"} /\ Numeric(f.args))
        => /\ Succeeded(f, IF f.op = "+" THEN SumOf(f.args) ELSE ProductOf(f.args))
           /\ \A k \in 1..(Len(f.args) - 1) :
                 f.result = Grouped(f.op, f.args, k)

\* ((a1 op a2) op a3) ... over the first n operands
RECURSIVE LeftFold(_, _, _)
LeftFold(op, args, n) ==
    IF n = 1 THEN IntegerValue(args[1])
    ELSE IF op = "-" THEN LeftFold(op, args, n - 1) - IntegerValue(args[n])
    ELSE GoQuotient(LeftFold(op, args, n - 1), IntegerValue(args[n]))

Numerals(ns) == [i \in 1..Len(ns) |-> IntegerWithValue(ns[i])]

\* C12: Subtract with exactly one numeric operand returns its negation;
\* Subtract and Quotient with two or more numeric operands return the left
\* fold ((a1 op a2) op a3) ... of subtraction, respectively integer division:
\* subtract(10,1,2) = 7 and divide(100,5,2) = 10.
C12_LeftFold ==
    \A f \in Frames :
        (Returned(f) /\ f.op \in {"-", "/"} /\ Numeric(f.args) /\ f.args # <<>>)
        => /\ (f.op = "-" /\ Len(f.args) = 1)
                 => Succeeded(f, -IntegerValue(f.args[1]))
           /\ Len(f.args) >= 2 => Succeeded(f, LeftFold(f.op, f.args, Len(f.args)))
           /\ (f.op = "-" /\ f.args = Numerals(<<10, 1, 2>>)) => Succeeded(f, 7)
           /\ (f.op = "/" /\ f.args = Numerals(<<100, 5, 2>>)) => Succeeded(f, 10)

\* divide(100,5,2) has returned 10
C12_Witness ==
    /\ AtRet
    /\ Top.op = "/"
    /\ Top.args = Numerals(<<100, 5, 2>>)
    /\ Succeeded(Top, 10)

ZeroDivisor(args) ==
    \E i \in 2..Len(args) : IntegerP(args[i]) /\ IntegerValue(args[i]) = 0

Failed(f) == f.err # NoErr /\ f.result = Nil

\* C13: Quotient called with a zero among its second or later operands
\* returns a failure with a message and no result; it never ends in a native
\* fault.
C13_DivideByZero ==
    \A f \in Frames :
        (f.op = "/" /\ ZeroDivisor(f.args))
        => /\ f.pc # "fault"
           /\ Returned(f) => Failed(f)

\* C14: if any operand of Add, Subtract, Multiply or Quotient is not a number,
\* whatever its position, the call fails with the type error and returns no
\* result.
C14_NumberExpected ==
    \A f \in Frames :
        (f.op \in Builtins /\ ~Numeric(f.args))
        => /\ f.pc # "fault"
           /\ Returned(f) => (Failed(f) /\ f.err = "Number expected")

(***************************************************************************)
(* The conditional.                                                        *)
(***************************************************************************)
\* the branch the condition selects: the else-branch for Boolean false only
Selected(args) == IF args[1] = LispFalse THEN args[3] ELSE args[2]

\* C15: the conditional evaluates its condition and then exactly one of its
\* two branches, never both: the then-branch when the condition's value is
\* anything other than Boolean false (Nil and 0 included), the else-branch when
\* it is exactly Boolean false.
C15_OneBranch ==
    \A f \in Frames :
        (Returned(f) /\ f.op = "if" /\ Len(f.args) = 3)
        => /\ f.applied = <<<<f.args[1]>>, <<Selected(f.args)>>>>
           /\ f.err = NoErr
           /\ f.result = Selected(f.args)

\* a Nil condition took the then-branch, 1, and not the else-branch, 0
C15_Witness ==
    /\ AtRet
    /\ Top.op = "if"
    /\ Top.args = <<Nil, IntegerWithValue(1), IntegerWithValue(0)>>
    /\ Top.applied = <<<<Nil>>, <<IntegerWithValue(1)>>>>
    /\ Top.result = IntegerWithValue(1)

\* C16: the conditional given any clause after its else-branch fails with
\* the arity error and no result, whatever the condition's value, and
\* evaluates neither the then-branch nor the else-branch nor the extra clause.
C16_TooManyClauses ==
    \A f \in Frames :
        (Returned(f) /\ f.op = "if" /\ Len(f.args) > 3)
        => /\ Failed(f)
           /\ f.err = "Too many arguments to IF"
           /\ f.applied = <<<<f.args[1]>>>>

\* a conditional with a true condition and four clauses has failed
C16_Witness ==
    /\ AtRet
    /\ Top.op = "if"
    /\ Len(Top.args) = 4
    /\ Top.args[1] = BooleanWithValue(TRUE)
    /\ Failed(Top)
    /\ Len(Top.applied) = 1

(***************************************************************************)
(* The command loop.                                                       *)
(***************************************************************************)
\* this step is the return of Eval, with a failure, to the ":r" that called it
ReturnFailedToEvaluate == ReplReturnDone /\ Top.err # NoErr

\* this step is a native fault in the expression of ":r"
ReturnFaulted ==
    /\ AtStart
    /\ ~AtTopLevel
    /\ stack[Len(stack) - 1].pc = "r"
    /\ Len(stack') < Len(stack) - 1

\* C17: a return-with-value command whose expression fails to parse or fails
\* to evaluate installs no override value and does not end the session: the
\* pending override, the paused frame and the single-step flag are unchanged
\* and the command loop reads the next line.
C17_FailedReturn ==
    [][(CmdReturnUnparsable \/ ReturnFailedToEvaluate \/ ReturnFaulted)
       => /\ UNCHANGED <<DebugReturnValue, DebugCurrentFrame, DebugSingleStep>>
          /\ AtRead'
          /\ ReplDepth(stack') = ReplDepth(stack)]_vars

\* C18: the step-out command issued while paused on the root frame does not
\* end the session and changes no state of the debug controller; issued on a
\* frame with a parent it ends the session with the paused frame set to that
\* frame and single-step disabled, whatever commands ended earlier sessions.
C18_StepOut ==
    [][CmdStepOut
       => IF Top.env = "global"
          THEN UNCHANGED <<flagVars, stack>>
          ELSE /\ ReplDepth(stack') = ReplDepth(stack) - 1
               /\ DebugCurrentFrame' = Top.env
               /\ DebugSingleStep' = FALSE]_vars

\* the command loop is evaluating a typed expression or the expression of ":r"
EvaluatingTyped ==
    \E i \in 1..Len(stack) : stack[i].k = "repl" /\ stack[i].pc \in {"typed", "r"}

\* C20: the recursion-suppression flag is set only while an expression typed
\* at the debugger prompt, or the expression of a return-with-value command, is
\* being evaluated: it is false whenever the command loop is blocked reading a
\* line and false every time the command loop returns, also when the
\* evaluation of the typed expression ends in a failure or a recovered native
\* fault.
C20_SuppressionFlag ==
    [][/\ DebugEvalInDebugRepl' => EvaluatingTyped'
       /\ AtRead' => ~DebugEvalInDebugRepl'
       /\ ReplDepth(stack') < ReplDepth(stack) => ~DebugEvalInDebugRepl']_vars


(***************************************************************************)
(* subvector-move-left!, subvector-move-right!                             *)
(***************************************************************************)
Moves == {"subvector-move-left!", "subvector-move-right!"}

\* 0 <= start <= end <= length(source), 0 <= start2 and
\* start2 + (end - start) <= length(destination)
InRange(args) ==
    LET start == IntegerValue(args[2])
        end == IntegerValue(args[3])
        start2 == IntegerValue(args[5])
    IN  /\ 0 <= start /\ start <= end /\ end <= Length(args[1])
        /\ 0 <= start2 /\ start2 + (end - start) <= Length(args[4])

\* the destination with source[start + j] in place start2 + j
Destination(args) ==
    LET start == IntegerValue(args[2])
        end == IntegerValue(args[3])
        start2 == IntegerValue(args[5])
    IN  [j \in 1..Length(args[4]) |->
            IF start2 < j /\ j <= start2 + (end - start)
            THEN VectorValue(args[1])[start + (j - start2)]
            ELSE VectorValue(args[4])[j]]

\* C19: subvector-move-left! and subvector-move-right!, given a source range
\* [start, end) with 0 <= start <= end <= length(source) and a destination
\* start start2 with 0 <= start2 and start2 + (end - start) <=
\* length(destination), write the value source[start + j] held before the call
\* into destination[start2 + j] for every j, leave every other destination
\* element unchanged and return the destination vector; any index outside
\* these bounds yields a failure with a message and both vectors unchanged,
\* never a native fault.
C19_SubVectorMove ==
    [][/\ \A args \in MoveArgs :
            (AtStart /\ Len(stack') >= Len(stack) /\ Called.op \in Moves
                     /\ Called.args = args)
            => IF InRange(args)
               THEN /\ Called.pc = "ret"
                    /\ Called.err = NoErr
                    /\ Called.result = args[4]
                    /\ SliceOf(arrays', vecs', args[4]) = Destination(args)
               ELSE /\ Called.pc # "fault"
                    /\ UNCHANGED heapVars
                    /\ Called.pc = "ret" => Failed(Called)
       /\ (\A f \in Frames :
             (Returned(f) /\ f.op \in Moves /\ ~InRange(f.args)) => Failed(f))']_vars

(***************************************************************************)
(* vector-reduce                                                           *)
(***************************************************************************)
\* the left fold of f over the first n elements of v, seeded with v[1]
RECURSIVE FoldOf(_, _, _)
FoldOf(f, v, n) ==
    IF n = 1 THEN v[1]
    ELSE ApplyWithoutEval(f, <<FoldOf(f, v, n - 1), v[n]>>).result

\* C21: vector-reduce(f, initial, v) returns initial when v is empty without
\* applying f; when v is non-empty it returns the left fold of f over the
\* elements of v seeded with the first element, applying f exactly
\* length(v) - 1 times in index order, and initial is never passed to f and
\* does not influence the result.
C21_Reduce ==
    \A fr \in Frames :
        (Returned(fr) /\ fr.op = "vector-reduce")
        => LET f == fr.args[1]
               initial == fr.args[2]
               v == VectorValue(fr.args[3])
           IN  IF v = <<>>
               THEN fr.applied = <<>> /\ fr.err = NoErr /\ fr.result = initial
               ELSE /\ \A k \in 1..Len(fr.applied) :
                          k < Len(v) /\ fr.applied[k] = <<FoldOf(f, v, k), v[k + 1]>>
                    /\ fr.err = NoErr
                         => /\ Len(fr.applied) = Len(v) - 1
                            /\ fr.result = FoldOf(f, v, Len(v))

\* (vector-reduce + nil v) over MaxLen ones has returned their sum
C21_Witness ==
    /\ AtRet
    /\ Top.op = "vector-reduce"
    /\ Top.args[1] = PrimitiveWithName("+")
    /\ Top.args[2] = Nil
    /\ VectorValue(Top.args[3]) = [i \in 1..MaxLen |-> IntegerWithValue(1)]
    /\ Top.err = NoErr
    /\ Len(Top.applied) = MaxLen - 1
    /\ Top.result = IntegerWithValue(MaxLen)

(***************************************************************************)
(* subvector, vector-head, vector-tail                                     *)
(***************************************************************************)
Writers == {"vector-set!", "vector-fill!", "subvector-fill!"}

\* C22: the vectors returned by subvector, vector-head and vector-tail are
\* independent of their source vector: after any later vector-set!,
\* vector-fill! or subvector-fill! on the source or on the result, the contents
\* of the other one are unchanged (as holds for the result of vector-copy).
C22_Independent ==
    [][\A written \in VecArgs, other \in VecArgs :
          (AtStart /\ Len(stack') >= Len(stack) /\ Called.op \in Writers
                   /\ Called.args[1] = written /\ other # written)
          => SliceOf(arrays', vecs', other) = VectorValue(other)]_vars

====
